---- MODULE Spec2Model ----
(***************************************************************************)
(* The concurrent fetch-transform-store pipeline of wow-analytics:         *)
(*   - the bounded concurrent batch fetches of the two API adapters        *)
(*     (adapters/blizzard_api/client.py and adapters/blizzard_api/         *)
(*     auctions.py): an asyncio.Semaphore, one task per list element,       *)
(*     asyncio.gather;                                                     *)
(*   - the orchestrator FetchAndStoreAuctionsUseCase                        *)
(*     (usecases/fetch_and_store_auctions.py) with the dataset transformer  *)
(*     (usecases/data_transformers.py) and the storage sink.                *)
(*                                                                         *)
(* Scheduling is asyncio's: one event loop, a coroutine runs without        *)
(* interruption until it awaits a remote call.  asyncio.gather schedules    *)
(* its tasks in argument order and all of them take their first step (the   *)
(* semaphore acquire) in the same loop iteration, before any remote call    *)
(* can complete.                                                            *)
(***************************************************************************)
EXTENDS Integers, Sequences, FiniteSets, TLC

\* ------------------------------------------------------------------ bounds
MaxLen == 3          \* longest realm id list passed to a batch fetch
MaxCap == 2          \* largest max_concurrent tried (smallest is -1)
MaxAuctions == 1     \* most auctions in one remote payload
UcMaxLen == 2        \* longest explicit realm id list passed to execute
MaxEntries == 2      \* most entries in the realm index payload
MaxReqs == 3         \* most concurrent _get calls sharing one token
MaxRows == 3         \* most auctions in an AuctionData given to the transformer

RealmIds == {11, 12, 13}        \* realm ids of direct batch calls
UcRealmIds == {0, 11, 12}       \* realm ids passed to execute (0 is the commodity convention)
IndexIds == <<11, 12>>          \* the realm index the remote service serves

\* default max_concurrent of get_all_connected_realms
DefaultRealmConcurrency == 10

\* ----------------------------------------------------------------- helpers
None == <<>>
Some(x) == <<x>>

Min(a, b) == IF a <= b THEN a ELSE b

\* A Python dict: the items <<[k, v], ...>> in insertion order, keys unique.
EmptyMap == <<>>
Keys(d) == {d[i].k : i \in DOMAIN d}
Lookup(d, key) == d[CHOOSE i \in DOMAIN d : d[i].k = key].v

\* d[key] = v: a present key keeps its place and takes the new value
DictSet(d, key, v) ==
    IF key \in Keys(d)
    THEN [i \in DOMAIN d |-> IF d[i].k = key THEN [k |-> key, v |-> v] ELSE d[i]]
    ELSE Append(d, [k |-> key, v |-> v])

Range(s) == {s[i] : i \in DOMAIN s}

\* ------------------------------------------------------------------- state
VARIABLES
    method,     \* the batch fetch method running (or last run), "" if none
    ids,        \* its realm_ids argument
    cap,        \* its max_concurrent argument
    sem,        \* asyncio.Semaphore._value
    waiters,    \* asyncio.Semaphore._waiters: task indices, FIFO
    tasks,      \* one task per element of ids: its state, the remote answer, the payload
    call,       \* the batch call: "idle", "gathering", "returned", "raised"
    err,        \* the exception a raised batch call carries
    result,     \* the mapping a returned batch call carries: id -> payload
    fetches,    \* the per-id remote fetches started, in order (ids)
    pc,         \* execute's position
    args,       \* execute's arguments
    api,        \* the adapter injected into the use case
    results,    \* execute's results dictionary
    queue,      \* auctions_by_realm.items() still to be stored
    paths,      \* result_paths of fetch_and_store_realm_auctions
    writes,     \* the calls of storage.write so far
    exc,        \* the exception that ended execute, "" if none
    ran,        \* the workflows execute has started, in order
    pool,       \* the size of the commodity pool the remote service served
    arg,        \* the argument of a pure function under test
    out,        \* its result
    token,      \* the OAuth token is present and not expired
    reqs,       \* concurrent _get calls: the position of each
    upstream,   \* what the remote service holds: realm id -> [o, m]
    run,        \* which invocation of the auction workflow is running
    mark,       \* the number of storage.write calls before the second one
    now,        \* the reading of the clock, in seconds
    disk,       \* what is under LocalParquetWriter's root: files and directories
    kept,       \* the paths written successfully and not deleted since
    last        \* the last call of the writer: operation, path, outcome

batchVars == <<method, ids, cap, sem, waiters, tasks, call, err, result, fetches>>
ucVars == <<pc, args, api, results, queue, paths, writes, exc, ran, pool>>
pureVars == <<arg, out>>
tokenVars == <<token, reqs>>
rerunVars == <<upstream, run, mark>>
clockVars == <<now>>
diskVars == <<disk, kept, last>>
sideVars == <<arg, out, token, reqs, upstream, run, mark, now, disk, kept, last>>
vars == <<method, ids, cap, sem, waiters, tasks, call, err, result, fetches,
          pc, args, api, results, queue, paths, writes, exc, ran, pool,
          arg, out, token, reqs, upstream, run, mark, now, disk, kept, last>>

\* -------------------------------------------------- the four batch fetches
ClientAuctions == "BlizzardAPIClient.get_multiple_realm_auctions"
ClientRealms == "BlizzardAPIClient.get_all_connected_realms"
AcAuctions == "AuctionsClient.get_multiple_realm_auctions"
AcDetails == "AuctionsClient.get_all_realm_details"

Methods == {ClientAuctions, ClientRealms, AcAuctions, AcDetails}
AuctionMethods == {ClientAuctions, AcAuctions}

\* what the remote service answers to one GET: 200, 404, another error status
Outcomes == {"ok", "notfound", "error"}

\* get_connected_realm, get_item and get_recipe of client.py: a 200 is parsed
\* and returned, a 404 becomes None, every other HTTPStatusError is re-raised
MutNotFoundRaises(outcome) == IF outcome = "ok" THEN "ok" ELSE "raised"

GetOrNone(outcome) ==
    IF outcome = "ok" THEN "ok"
    ELSE IF outcome = "notfound" THEN "none"
    ELSE "raised"

\* How the per-id coroutine of a batch method ends for a remote outcome:
\* "ok" it returns (rid, data), "none" it returns (rid, None), "raised" the
\* exception leaves the task.
\*   fetch_auctions (client.py): get_auctions has no handler at all;
\*   fetch_realm (client.py): get_connected_realm turns a 404 into None and
\*     re-raises everything else;
\*   fetch_with_semaphore (auctions.py, both): except Exception -> None.
TaskEnd(m, outcome) ==
    IF outcome = "ok" THEN "ok"
    ELSE IF m = ClientAuctions THEN "raised"
    ELSE IF m = ClientRealms THEN GetOrNone(outcome)
    ELSE "none"

\* asyncio.Semaphore(k) followed by the first step of each of n tasks: the
\* number of tasks whose `async with semaphore` gets a slot at once.
MutSlotsTakenUnbounded(k, n) == n

SlotsTaken(k, n) == Min(k, n)

\* the comprehension that builds the returned dict keeps a pair unless its
\* data is None (client.py:259 has no such filter, client.py:218 and
\* auctions.py:99/126 have it)
MutKeptAll(m, st) == TRUE

Kept(m, st) == IF m = ClientAuctions THEN TRUE ELSE st # "none"

\* what a settled task returns for its id: the size of the payload and the
\* instant it was parsed
Payload(t) == [m |-> t.m, ts |-> t.ts]

\* the dict built from the first n gathered pairs, in gather's (argument)
\* order: a later pair with the same key replaces the value of an earlier one
RECURSIVE DictOf(_, _, _, _)
DictOf(m, rids, tk, n) ==
    IF n = 0 THEN EmptyMap
    ELSE LET d == DictOf(m, rids, tk, n - 1)
         IN  IF Kept(m, tk[n].st) THEN DictSet(d, rids[n], Payload(tk[n])) ELSE d

Mapping(m, rids, tk) == DictOf(m, rids, tk, Len(rids))

Settled(st) == st \in {"ok", "none", "raised"}

\* asyncio.gather returns when every awaitable has finished
MutGatherFirstCompleted(tk) == \E i \in DOMAIN tk : Settled(tk[i].st)

AllSettled(tk) == \A i \in DOMAIN tk : Settled(tk[i].st)
InFlight == {i \in DOMAIN tasks : tasks[i].st = "inflight"}

\* The call of a batch method up to its `await asyncio.gather(...)`, and the
\* first step of every task.  asyncio.Semaphore raises ValueError for a
\* negative value and accepts 0.
BatchCall(m, rids, k) ==
    /\ method' = m
    /\ ids' = rids
    /\ cap' = k
    /\ result' = EmptyMap
    /\ IF k < 0
       THEN /\ call' = "raised"
            /\ err' = "ValueError"
            /\ sem' = 0
            /\ waiters' = <<>>
            /\ tasks' = <<>>
            /\ fetches' = <<>>
       ELSE LET n == Len(rids)
                r == SlotsTaken(k, n)
            IN  /\ tasks' = [i \in 1..n |->
                                [st |-> IF i <= r THEN "inflight" ELSE "waiting",
                                 o |-> "", m |-> 0, ts |-> 0]]
                /\ waiters' = [j \in 1..(n - r) |-> r + j]
                /\ sem' = k - r
                /\ fetches' = SubSeq(rids, 1, r)
                /\ call' = IF n = 0 THEN "returned" ELSE "gathering"
                /\ err' = ""

\* Semaphore.release: with a task waiting, the slot is handed over to it
MutNoHandOver(w) == FALSE

HandsOver(w) == w # <<>>

\* _wake_up_next: the waiter that has waited longest is woken
MutWokenLast(w) == w[Len(w)]

Woken(w) == Head(w)

StillWaiting(w) == SelectSeq(w, LAMBDA j : j # Woken(w))

\* _parse_auction_data / AuctionData.from_api_response stamp the payload
\* with the clock reading at the moment the response is parsed
ParsedAt(m, outcome) == IF outcome = "ok" /\ m \in AuctionMethods THEN now ELSE 0

\* The remote call of task i completes with `outcome` (and, for an auction
\* payload, m auctions): the task ends, `async with` releases the slot, the
\* first waiter (if any) takes it and starts its remote call, and gather
\* either propagates the first exception to the caller or, when the last
\* task has ended, hands over the results.
Complete(i, outcome, m) ==
    /\ i \in DOMAIN tasks
    /\ tasks[i].st = "inflight"
    /\ m = 0 \/ (outcome = "ok" /\ method \in AuctionMethods)
    /\ LET st == TaskEnd(method, outcome)
           ended == [tasks EXCEPT ![i] = [st |-> st, o |-> outcome, m |-> m,
                                          ts |-> ParsedAt(method, outcome)]]
           tk == IF HandsOver(waiters)
                 THEN [ended EXCEPT ![Woken(waiters)].st = "inflight"]
                 ELSE ended
       IN  /\ tasks' = tk
           /\ IF HandsOver(waiters)
              THEN /\ waiters' = StillWaiting(waiters)
                   /\ fetches' = Append(fetches, ids[Woken(waiters)])
                   /\ UNCHANGED sem
              ELSE /\ sem' = sem + 1
                   /\ UNCHANGED <<waiters, fetches>>
           /\ IF call = "gathering" /\ st = "raised"
              THEN /\ call' = "raised"
                   /\ err' = "HTTPStatusError"
                   /\ UNCHANGED result
              ELSE IF call = "gathering" /\ AllSettled(tk)
              THEN /\ call' = "returned"
                   /\ result' = Mapping(method, ids, tk)
                   /\ UNCHANGED err
              ELSE UNCHANGED <<call, err, result>>
    /\ UNCHANGED <<method, ids, cap>>

\* ----------------------------------------------------- dataset transformer
SecondsPerHour == 3600
SecondsPerDay == 24 * SecondsPerHour

\* the first clock reading: the last second of a day
Boot == SecondsPerDay - 1

\* the clock readings of one run: the second before and the second after
\* midnight, so that two fetches of a run may differ in date and in hour
Readings == {Boot, Boot + 1}

\* AuctionData: the realm id the adapter attached (an int or None), the
\* auctions of the payload in source order, and the instant of the fetch
AuctionData(crid, m, ts) ==
    [connected_realm_id |-> crid,
     auctions |-> [a \in 1..m |-> [id |-> a, quantity |-> 1]],
     fetch_timestamp |-> ts]

\* strftime("%Y-%m-%d"): the calendar day, as its number
DateStr(ts) == ts \div SecondsPerDay

\* strftime("%H"): the hour of the day, zero-padded to two digits
DecimalDigits == <<"0", "1", "2", "3", "4", "5", "6", "7", "8", "9">>
HourStr(ts) ==
    LET h == (ts % SecondsPerDay) \div SecondsPerHour
    IN  <<DecimalDigits[(h \div 10) + 1], DecimalDigits[(h % 10) + 1]>>

\* strftime("%Y%m%d%H%M%S"): day, hour and the seconds into the hour
FileTs(ts) == <<DateStr(ts), HourStr(ts), ts % SecondsPerHour>>

Frame(rows) == [raised |-> FALSE, rows |-> rows]
TypeErrorRaised == [raised |-> TRUE, rows |-> <<>>]

\* Series.astype to a signed integer dtype of w bits: the cast is unchecked,
\* a value outside the dtype's range keeps its low w bits
AstypeInt(v, w) == ((v + 2^(w - 1)) % 2^w) - 2^(w - 1)

\* _optimize_auction_dtypes: Series.astype("int32") on connected_realm_id
\* raises TypeError on a None and keeps an int; quantity is cast to int16
MutOptimizeKeepsNull(records) == Frame(records)

OptimizeAuctionDtypes(records) ==
    IF \E i \in DOMAIN records : records[i].connected_realm_id = None
    THEN TypeErrorRaised
    ELSE Frame([i \in DOMAIN records |->
                   [records[i] EXCEPT !.quantity = AstypeInt(@, 16)]])

\* line 82-98: the record of one auction
AuctionRecord(ad, auction) ==
    [auction_id |-> auction.id,
     quantity |-> auction.quantity,
     connected_realm_id |-> ad.connected_realm_id,
     fetch_timestamp |-> ad.fetch_timestamp,
     date |-> DateStr(ad.fetch_timestamp),
     hour |-> HourStr(ad.fetch_timestamp)]

MutOneRowPerAuctionData(ad) ==
    IF Len(ad.auctions) > 0
    THEN OptimizeAuctionDtypes(<<AuctionRecord(ad, ad.auctions[1])>>)
    ELSE Frame(<<>>)

\* auctions_to_dataframe: one record per auction, each carrying the realm id
\* of the AuctionData; the dtypes are optimized only if there are rows
AuctionsToDataframe(ad) ==
    LET records == [i \in DOMAIN ad.auctions |-> AuctionRecord(ad, ad.auctions[i])]
    IN  IF Len(records) > 0 THEN OptimizeAuctionDtypes(records) ELSE Frame(records)

\* connected_realms_to_dataframe: one record per item of the dict
ConnectedRealmsToDataframe(realms) ==
    [i \in DOMAIN realms |-> [id |-> realms[i].k]]

MutPathOfWriteTime(timestamp, realm_id) ==
    [dir |-> IF realm_id = 0 THEN "commodities" ELSE "realm",
     id |-> IF realm_id = 0 THEN 0 ELSE realm_id,
     date |-> DateStr(now),
     hour |-> HourStr(now),
     file_ts |-> FileTs(now)]

\* generate_auction_path: realm id 0 is taken to mean the commodity pool
GenerateAuctionPath(timestamp, realm_id) ==
    [dir |-> IF realm_id = 0 THEN "commodities" ELSE "realm",
     id |-> IF realm_id = 0 THEN 0 ELSE realm_id,
     date |-> DateStr(timestamp),
     hour |-> HourStr(timestamp),
     file_ts |-> FileTs(timestamp)]

RealmMetadataPath == [dir |-> "global", id |-> 0]

\* LocalParquetWriter.write returns str(root_dir / path)
Location(path) == [root |-> "root_dir", path |-> path]

\* ----------------------------------------------------------- the adapters
Blizzard == "BlizzardAPIClient"
Auctions == "AuctionsClient"
Apis == {Blizzard, Auctions}

AuctionBatchOf(a) == IF a = Blizzard THEN ClientAuctions ELSE AcAuctions

\* get_auctions of either adapter attaches the realm id it was called with
GetAuctions(a, realm_id, m, ts) == AuctionData(Some(realm_id), m, ts)

\* get_commodity_auctions: client.py passes connected_realm_id=0,
\* auctions.py leaves the parameter at its default None
CommodityRealmId(a) == IF a = Blizzard THEN Some(0) ELSE None

GetCommodityAuctions(a, m, ts) == AuctionData(CommodityRealmId(a), m, ts)

\* ---------------------------------------------------------- the use case
\* the guards in front of the three storage.write calls
RealmsFrameHasRows(df) == Len(df) > 0

MutRealmAlwaysStored(ad) == TRUE

MutSkipAlreadyWritten(ad) ==
    /\ Len(ad.auctions) > 0
    /\ \A i \in DOMAIN writes : writes[i].path.id # ad.connected_realm_id[1]

RealmHasAuctions(ad) == Len(ad.auctions) > 0

MutCommoditiesNeverEmpty(ad) == FALSE

CommoditiesEmpty(ad) == Len(ad.auctions) = 0

\* line 130: result_paths[realm_id] = full_path
MutRecordPathDropped(d, realm_id, full_path) == d

RecordPath(d, realm_id, full_path) == DictSet(d, realm_id, full_path)

WriteCall(wf, path, rows, ok) == [wf |-> wf, path |-> path, rows |-> rows, ok |-> ok]

Raise(e) == pc' = "raised" /\ exc' = e

\* execute is called: line 191-195
Execute ==
    /\ pc = "idle"
    /\ \E ir, ia, ic \in BOOLEAN,
          rl \in {None} \cup {Some(l) : l \in UNION {[1..n -> UcRealmIds] : n \in 0..UcMaxLen}},
          k \in -1..MaxCap, a \in Apis :
          /\ args' = [include_realms |-> ir, include_auctions |-> ia,
                      include_commodities |-> ic, realm_ids |-> rl, max_concurrent |-> k]
          /\ api' = a
    /\ pc' = "realms"
    /\ UNCHANGED <<results, queue, paths, writes, exc, ran, pool>>
    /\ UNCHANGED batchVars
    /\ UNCHANGED sideVars

\* line 198: the realm metadata workflow starts with get_connected_realm_ids
EnterRealms ==
    /\ pc = "realms"
    /\ pc' = IF args.include_realms THEN "realm_ids" ELSE "auctions"
    /\ ran' = IF args.include_realms THEN Append(ran, "realms") ELSE ran
    /\ UNCHANGED <<args, api, results, queue, paths, writes, exc, pool>>
    /\ UNCHANGED batchVars
    /\ UNCHANGED sideVars

\* line 71-74: the id index arrives (or its request fails) and the batch
\* fetch of the realm details is called, with its default max_concurrent.
\* AuctionsClient has no get_all_connected_realms.
RealmIdsDone ==
    /\ pc = "realm_ids"
    /\ \E o \in {"ok", "error"} :
          IF o = "error" THEN Raise("HTTPStatusError") /\ UNCHANGED batchVars
          ELSE IF api = Auctions THEN Raise("AttributeError") /\ UNCHANGED batchVars
          ELSE /\ BatchCall(ClientRealms, IndexIds, DefaultRealmConcurrency)
               /\ pc' = "realm_batch"
               /\ UNCHANGED exc
    /\ UNCHANGED <<args, api, results, queue, paths, writes, ran, pool>>
    /\ UNCHANGED sideVars

\* line 76-87 and 199: the realm details are in; transform, write, return
StoreRealms ==
    /\ pc = "realm_batch"
    /\ call \in {"returned", "raised"}
    /\ IF call = "raised"
       THEN Raise(err) /\ UNCHANGED <<results, writes>>
       ELSE LET df == ConnectedRealmsToDataframe(result)
            IN  IF RealmsFrameHasRows(df)
                THEN \E ok \in BOOLEAN :
                        /\ writes' = Append(writes, WriteCall("realms", RealmMetadataPath, df, ok))
                        /\ IF ok
                           THEN /\ results' = [results EXCEPT !.realms = Some(result)]
                                /\ pc' = "auctions"
                                /\ UNCHANGED exc
                           ELSE Raise("StorageError") /\ UNCHANGED results
                ELSE /\ results' = [results EXCEPT !.realms = Some(result)]
                     /\ pc' = "auctions"
                     /\ UNCHANGED <<writes, exc>>
    /\ UNCHANGED <<args, api, queue, paths, ran, pool>>
    /\ UNCHANGED batchVars
    /\ UNCHANGED sideVars

\* line 105: `if realm_ids is None`
MutEmptyListIsOmitted(realm_ids) == realm_ids = None \/ realm_ids = Some(<<>>)

RealmIdsOmitted(realm_ids) == realm_ids = None

\* line 202-109: the auction workflow resolves its realm ids and calls the
\* batch fetch with execute's max_concurrent
EnterAuctions ==
    /\ pc = "auctions"
    /\ IF ~args.include_auctions
       THEN pc' = "commodities" /\ UNCHANGED batchVars
       ELSE IF RealmIdsOmitted(args.realm_ids)
       THEN pc' = "auction_ids" /\ UNCHANGED batchVars
       ELSE /\ BatchCall(AuctionBatchOf(api), args.realm_ids[1], args.max_concurrent)
            /\ pc' = "auction_batch"
    /\ ran' = IF args.include_auctions THEN Append(ran, "auctions") ELSE ran
    /\ UNCHANGED <<args, api, results, queue, paths, writes, exc, pool>>
    /\ UNCHANGED sideVars

\* line 106-109
AuctionIdsDone ==
    /\ pc = "auction_ids"
    /\ \E o \in {"ok", "error"} :
          IF o = "error" THEN Raise("HTTPStatusError") /\ UNCHANGED batchVars
          ELSE /\ BatchCall(AuctionBatchOf(api), IndexIds, args.max_concurrent)
               /\ pc' = "auction_batch"
               /\ UNCHANGED exc
    /\ UNCHANGED <<args, api, results, queue, paths, writes, ran, pool>>
    /\ UNCHANGED sideVars

\* line 109-113: the batch fetch is over; the loop over the items starts
AuctionsFetched ==
    /\ pc = "auction_batch"
    /\ call \in {"returned", "raised"}
    /\ IF call = "raised"
       THEN Raise(err) /\ UNCHANGED <<queue, paths>>
       ELSE /\ queue' = result
            /\ paths' = EmptyMap
            /\ pc' = "auction_store"
            /\ UNCHANGED exc
    /\ UNCHANGED <<args, api, results, writes, ran, pool>>
    /\ UNCHANGED batchVars
    /\ UNCHANGED sideVars

\* line 113-132: one turn of the loop, or its end
StoreRealmAuctions ==
    /\ pc = "auction_store"
    /\ IF queue = <<>>
       THEN /\ results' = [results EXCEPT !.auctions = Some(paths)]
            /\ pc' = "commodities"
            /\ UNCHANGED <<queue, paths, writes, exc>>
       ELSE LET realm_id == Head(queue).k
                auction_data == GetAuctions(api, realm_id, Head(queue).v.m, Head(queue).v.ts)
            IN  IF ~RealmHasAuctions(auction_data)
                THEN /\ queue' = Tail(queue)
                     /\ UNCHANGED <<pc, results, paths, writes, exc>>
                ELSE LET df == AuctionsToDataframe(auction_data)
                         path == GenerateAuctionPath(auction_data.fetch_timestamp, realm_id)
                     IN  IF df.raised
                         THEN Raise("TypeError") /\ UNCHANGED <<results, queue, paths, writes>>
                         ELSE \E ok \in BOOLEAN :
                                /\ writes' = Append(writes, WriteCall("auctions", path, df.rows, ok))
                                /\ IF ok
                                   THEN /\ paths' = RecordPath(paths, realm_id, Location(path))
                                        /\ queue' = Tail(queue)
                                        /\ UNCHANGED <<pc, results, exc>>
                                   ELSE Raise("StorageError") /\ UNCHANGED <<results, queue, paths>>
    /\ UNCHANGED <<args, api, ran, pool>>
    /\ UNCHANGED batchVars
    /\ UNCHANGED sideVars

\* line 209-210, 144: the commodity workflow starts its single fetch
EnterCommodities ==
    /\ pc = "commodities"
    /\ pc' = IF args.include_commodities THEN "commodity_fetch" ELSE "done"
    /\ ran' = IF args.include_commodities THEN Append(ran, "commodities") ELSE ran
    /\ UNCHANGED <<args, api, results, queue, paths, writes, exc, pool>>
    /\ UNCHANGED batchVars
    /\ UNCHANGED sideVars

\* line 144-163, 210-212: the commodity pool arrives (or the request fails)
StoreCommodities ==
    /\ pc = "commodity_fetch"
    /\ \E o \in {"ok", "error"}, m \in 0..MaxAuctions :
          /\ o = "error" => m = 0
          /\ pool' = IF o = "ok" THEN Some(m) ELSE pool
          /\ IF o = "error"
             THEN Raise("HTTPStatusError") /\ UNCHANGED <<results, writes>>
             ELSE LET auction_data == GetCommodityAuctions(api, m, now)
                  IN  IF CommoditiesEmpty(auction_data)
                      THEN /\ pc' = "done"
                           /\ UNCHANGED <<results, writes, exc>>
                      ELSE LET df == AuctionsToDataframe(auction_data)
                               path == GenerateAuctionPath(auction_data.fetch_timestamp, 0)
                           IN  IF df.raised
                               THEN Raise("TypeError") /\ UNCHANGED <<results, writes>>
                               ELSE \E ok \in BOOLEAN :
                                      /\ writes' = Append(writes, WriteCall("commodities", path, df.rows, ok))
                                      /\ IF ok
                                         THEN /\ results' = [results EXCEPT !.commodities = Some(Location(path))]
                                              /\ pc' = "done"
                                              /\ UNCHANGED exc
                                         ELSE Raise("StorageError") /\ UNCHANGED results
    /\ UNCHANGED <<args, api, queue, paths, ran>>
    /\ UNCHANGED batchVars
    /\ UNCHANGED sideVars

\* ------------------------------------------------- a batch fetch on its own
SeqsUpTo(S, n) == UNION {[1..l -> S] : l \in 0..n}

Caps == -1..MaxCap

InitBatch ==
    /\ method = "" /\ ids = <<>> /\ cap = 0 /\ sem = 0 /\ waiters = <<>>
    /\ tasks = <<>> /\ call = "idle" /\ err = "" /\ result = EmptyMap
    /\ fetches = <<>>

InitUc ==
    /\ pc = "idle"
    /\ args = [include_realms |-> FALSE, include_auctions |-> FALSE,
               include_commodities |-> FALSE, realm_ids |-> None, max_concurrent |-> 0]
    /\ api = ""
    /\ results = [realms |-> None, auctions |-> None, commodities |-> None]
    /\ queue = <<>>
    /\ paths = <<>>
    /\ writes = <<>>
    /\ exc = ""
    /\ ran = <<>>
    /\ pool = None

InitPure == arg = <<>> /\ out = None
InitToken == token = TRUE /\ reqs = <<>>
InitRerun == upstream = <<>> /\ run = 0 /\ mark = 0
InitClock == now = Boot
InitDisk == disk = [files |-> {}, dirs |-> {}] /\ kept = {} /\ last = None

Init == InitBatch /\ InitUc /\ InitPure /\ InitToken /\ InitRerun /\ InitClock /\ InitDisk

\* a caller invokes one of the four batch methods
Call ==
    /\ call = "idle"
    /\ \E m \in Methods, rids \in SeqsUpTo(RealmIds, MaxLen), k \in Caps :
          BatchCall(m, rids, k)
    /\ UNCHANGED ucVars
    /\ UNCHANGED sideVars

Settle ==
    /\ \E i \in DOMAIN tasks, o \in Outcomes, m \in 0..MaxAuctions : Complete(i, o, m)
    /\ UNCHANGED ucVars
    /\ UNCHANGED sideVars

Next == Call \/ Settle

Spec == Init /\ [][Next]_vars

\* ---------------------------------------------------- execute and its fetches
\* time passes; the clock is read only when a response is parsed, so the
\* passing of time is observable only while a fetch is awaited
Tick ==
    /\ pc \in {"auction_batch", "commodity_fetch"}
    /\ now + 1 \in Readings
    /\ now' = now + 1
    /\ UNCHANGED <<batchVars, ucVars, pureVars, tokenVars, rerunVars, diskVars>>

NextUc ==
    \/ Execute
    \/ EnterRealms
    \/ RealmIdsDone
    \/ StoreRealms
    \/ EnterAuctions
    \/ AuctionIdsDone
    \/ AuctionsFetched
    \/ StoreRealmAuctions
    \/ EnterCommodities
    \/ StoreCommodities
    \/ Settle

SpecUc == Init /\ [][NextUc]_vars

\* execute(include_realms=False, ...) while the clock runs
ExecuteStores ==
    /\ pc = "idle"
    /\ \E ia, ic \in BOOLEAN,
          rl \in {None} \cup {Some(l) : l \in SeqsUpTo(UcRealmIds, UcMaxLen)},
          k \in 1..MaxCap, a \in Apis :
          /\ args' = [include_realms |-> FALSE, include_auctions |-> ia,
                      include_commodities |-> ic, realm_ids |-> rl, max_concurrent |-> k]
          /\ api' = a
    /\ pc' = "auctions"
    /\ UNCHANGED <<results, queue, paths, writes, exc, ran, pool>>
    /\ UNCHANGED batchVars
    /\ UNCHANGED sideVars

\* the answers of the remote service while the clock runs: a per-realm
\* payload is empty or holds more than one auction
PayloadSizes == {0, MaxAuctions + 1}

SettleStamped ==
    /\ \E i \in DOMAIN tasks, o \in Outcomes, m \in PayloadSizes : Complete(i, o, m)
    /\ UNCHANGED ucVars
    /\ UNCHANGED sideVars

NextClock ==
    \/ ExecuteStores
    \/ EnterAuctions
    \/ AuctionIdsDone
    \/ AuctionsFetched
    \/ StoreRealmAuctions
    \/ EnterCommodities
    \/ StoreCommodities
    \/ SettleStamped
    \/ Tick

SpecClock == Init /\ [][NextClock]_vars

\* ================================================================== claims
PipelineMethods == {ClientAuctions, ClientRealms}
OkIds == {ids[i] : i \in {j \in DOMAIN tasks : tasks[j].st = "ok"}}
Completed == call \in {"returned", "raised"}
FetchesOf(r) == {j \in DOMAIN fetches : fetches[j] = r}

\* C1: for every max_concurrent = k >= 1 and every id list, in no state of a
\* batch fetch (any of the four methods) are more than k per-id remote
\* fetches in flight.
InFlightBounded == cap >= 1 => Cardinality(InFlight) <= cap

\* C1 witness: the cap is binding: k fetches in flight and another id waiting
InFlightAtCap ==
    /\ cap >= 1
    /\ Cardinality(InFlight) = cap
    /\ waiters # <<>>

\* C2: in get_multiple_realm_auctions / get_all_connected_realms of
\* BlizzardAPIClient, when the fetch of one id raises and all others succeed,
\* the call returns a mapping holding exactly the other ids.
OneFailureIsolated ==
    ( /\ method \in PipelineMethods
      /\ tasks # <<>>
      /\ AllSettled(tasks)
      /\ Cardinality({i \in DOMAIN tasks : tasks[i].st = "raised"}) = 1
      /\ \A i \in DOMAIN tasks : tasks[i].st \in {"ok", "raised"} )
    => (call = "returned" /\ Keys(result) = OkIds)

\* C3: when a batch call of BlizzardAPIClient has completed (returned or
\* raised), every fetch it dispatched has settled, and it has not raised
\* because a per-id fetch failed.
CompletedMeansSettled ==
    (method \in PipelineMethods /\ Completed)
    => (AllSettled(tasks) /\ (call = "raised" => err # "HTTPStatusError"))

\* C4: the mapping a batch fetch returns has as key set exactly the distinct
\* input ids for which a fetch succeeded with a result (not None): no key
\* from outside the input, no successful id missing, one entry per id.
KeysAreSuccessfulIds ==
    call = "returned" =>
        /\ Keys(result) = OkIds
        /\ Keys(result) \subseteq Range(ids)

\* C4 witness: a returned call whose input repeats an id, with a not-found
\* id left out and a successful id kept
KeysWitness ==
    /\ call = "returned"
    /\ \E i, j \in DOMAIN ids : i # j /\ ids[i] = ids[j] /\ tasks[i].st = "ok"
    /\ \E i \in DOMAIN tasks : tasks[i].st = "none" /\ ids[i] \notin Keys(result)
    /\ result # <<>>

\* C5: an id that occurs several times in the input is fetched remotely once:
\* the number of remote fetches is the number of distinct ids.
OneFetchPerDistinctId ==
    /\ \A r \in Range(ids) : Cardinality(FetchesOf(r)) <= 1
    /\ (call = "returned" => Len(fetches) = Cardinality(Range(ids)))

\* C6: a batch fetch called with max_concurrent <= 0 ends in a configuration
\* error before any per-id fetch starts: nothing is dispatched, nothing
\* waits for a slot.
NonPositiveCapRejected ==
    (call # "idle" /\ cap <= 0)
    => (call = "raised" /\ err = "ValueError" /\ fetches = <<>> /\ waiters = <<>>)

\* ------------------------------------------------------- claims on execute
WritesOf(wf) == {i \in DOMAIN writes : writes[i].wf = wf}
FailedWriteIn(wfs) == \E i \in DOMAIN writes : writes[i].wf \in wfs /\ ~writes[i].ok
PerRealmFetchFailed == call = "raised" /\ err = "HTTPStatusError"

\* C7: in execute, a storage write failure in the realm metadata or the
\* per-realm auction workflow, or a failed per-realm fetch, does not abort
\* execute: it goes on with the remaining workflows and returns its result
\* instead of ending with the exception.
ExecuteSurvivesWorkflowFailure ==
    (FailedWriteIn({"realms", "auctions"}) \/ PerRealmFetchFailed) => pc # "raised"

\* C8: storage.write is never called with a table of zero rows, in any of the
\* three workflows.
NoEmptyWrite == \A i \in DOMAIN writes : Len(writes[i].rows) > 0

\* C8 witness: execute is through, the auction workflow met a realm without
\* auctions beside one with auctions, and wrote
EmptyRealmSkipped ==
    /\ pc = "done"
    /\ results.auctions # None
    /\ \E i \in DOMAIN result : result[i].v.m = 0
    /\ \E i \in DOMAIN result : result[i].v.m > 0
    /\ WritesOf("auctions") # {}

\* the realm whose rows a write of the auction workflow carries
RealmOfWrite(i) == writes[i].rows[1].connected_realm_id[1]

\* C9: when fetch_and_store_realm_auctions has returned, the keys of its
\* mapping are exactly the realm ids of auctions_by_realm (the successfully
\* fetched ones) with at least one auction; storage.write was called once for
\* each of them and for nothing else, and the value is the location that write
\* returned.
AuctionPathsExact ==
    results.auctions # None =>
        LET p == results.auctions[1]
            stored == {result[i].k : i \in {j \in DOMAIN result : result[j].v.m > 0}}
        IN  /\ Keys(p) = stored
            /\ Keys(result) = OkIds
            /\ \A i \in WritesOf("auctions") : writes[i].ok /\ RealmOfWrite(i) \in stored
            /\ \A r \in stored :
                  /\ Cardinality({i \in WritesOf("auctions") : RealmOfWrite(i) = r}) = 1
                  /\ \A i \in WritesOf("auctions") :
                        RealmOfWrite(i) = r => Lookup(p, r) = Location(writes[i].path)

\* C9 witness: the workflow has returned a mapping with two realms
TwoRealmsStored ==
    /\ results.auctions # None
    /\ Len(results.auctions[1]) = 2
    /\ Cardinality(WritesOf("auctions")) = 2

\* C10: every row the commodity workflow writes carries connected_realm_id 0,
\* whichever adapter serves get_commodity_auctions: never null, never a real
\* realm id.
CommodityRowsRealmZero ==
    \A i \in WritesOf("commodities") :
        \A j \in DOMAIN writes[i].rows : writes[i].rows[j].connected_realm_id = Some(0)

\* C10 witness: the commodity workflow has written its rows and returned
CommoditiesWritten ==
    /\ pc = "done"
    /\ results.commodities # None
    /\ \E i \in WritesOf("commodities") : writes[i].ok /\ Len(writes[i].rows) = MaxAuctions

\* the workflows whose flag the caller set, in the order execute tests them
Flagged ==
    SelectSeq(<<"realms", "auctions", "commodities">>,
              LAMBDA w : \/ w = "realms" /\ args.include_realms
                         \/ w = "auctions" /\ args.include_auctions
                         \/ w = "commodities" /\ args.include_commodities)

\* C11: execute runs a workflow if and only if its flag is set, each flag
\* independently of the other two: no unflagged workflow is ever started, and
\* when execute returns, exactly the flagged ones have run and the result has
\* the entries realms, auctions, commodities, each None when its workflow was
\* skipped (or, for commodities, when the pool was empty) and otherwise that
\* workflow's output: the realm mapping, the realm-id-to-location mapping,
\* the single location.
FlagsDecideResult ==
    /\ Range(ran) \subseteq Range(Flagged)
    /\ pc = "done" =>
          /\ ran = Flagged
          /\ DOMAIN results = {"realms", "auctions", "commodities"}
          /\ results.realms = None <=> ~args.include_realms
          /\ results.realms # None => Keys(results.realms[1]) \subseteq Range(IndexIds)
          /\ results.auctions = None <=> ~args.include_auctions
          /\ results.auctions # None =>
                \A i \in DOMAIN results.auctions[1] :
                    \E ts \in Readings :
                        results.auctions[1][i].v =
                            Location(GenerateAuctionPath(ts, results.auctions[1][i].k))
          /\ results.commodities = None <=>
                (~args.include_commodities \/ pool = Some(0))
          /\ results.commodities # None =>
                \E ts \in Readings :
                    results.commodities = Some(Location(GenerateAuctionPath(ts, 0)))

\* C11 witness: execute returned with realms skipped, auctions stored and an
\* empty commodity pool
FlagsMixedDone ==
    /\ pc = "done"
    /\ ~args.include_realms /\ args.include_auctions /\ args.include_commodities
    /\ results.auctions # None /\ results.auctions[1] # EmptyMap
    /\ pool = Some(0)
    /\ results.commodities = None

\* ------------------------------------------- realm ids of the realm index
\* A string is the sequence of its characters; "c" stands for the word
\* connected-realm, "h" for the scheme and host, "n" for a query parameter.
Digits == {"1", "2"}
DigitValue(c) == IF c = "1" THEN 1 ELSE 2

StartsWith(s, sep) == Len(s) >= Len(sep) /\ SubSeq(s, 1, Len(sep)) = sep

\* str.split(sep): the pieces between the occurrences of sep, left to right
RECURSIVE Split(_, _)
Split(s, sep) ==
    IF s = <<>> THEN << <<>> >>
    ELSE IF StartsWith(s, sep)
    THEN << <<>> >> \o Split(SubSeq(s, Len(sep) + 1, Len(s)), sep)
    ELSE LET rest == Split(Tail(s), sep)
         IN  << <<Head(s)>> \o rest[1] >> \o Tail(rest)

\* sep in s
Contains(s, sep) == Len(Split(s, sep)) > 1

\* str.isdigit()
IsDigit(s) == s # <<>> /\ \A i \in DOMAIN s : s[i] \in Digits

\* int(s) of a decimal literal
RECURSIVE IntOf(_)
IntOf(s) ==
    IF s = <<>> THEN 0
    ELSE IntOf(SubSeq(s, 1, Len(s) - 1)) * 10 + DigitValue(s[Len(s)])

\* int(s) raises ValueError unless s is a literal; over this alphabet the
\* literals are the non-empty digit strings
IntRaises(s) == ~IsDigit(s)

Marker == <<"/", "c", "/">>

ParsedIds(xs) == [raised |-> FALSE, ids |-> xs]
ValueErrorRaised == [raised |-> TRUE, ids |-> <<>>]

\* client.py 181-191: the text between the marker and the first "?", through int()
RECURSIVE ClientRealmIds(_, _)
ClientRealmIds(entries, n) ==
    IF n = 0 THEN ParsedIds(<<>>)
    ELSE LET before == ClientRealmIds(entries, n - 1)
             href == entries[n]
         IN  IF before.raised THEN before
             ELSE IF Contains(href, Marker)
             THEN LET realm_id == Split(Split(href, Marker)[2], <<"?">>)[1]
                  IN  IF IntRaises(realm_id) THEN ValueErrorRaised
                      ELSE ParsedIds(Append(before.ids, IntOf(realm_id)))
             ELSE before

\* auctions.py 23-38: the last "/" piece up to the first "?", kept if isdigit()
RECURSIVE AuctionsClientRealmIds(_, _)
AuctionsClientRealmIds(entries, n) ==
    IF n = 0 THEN ParsedIds(<<>>)
    ELSE LET before == AuctionsClientRealmIds(entries, n - 1)
             href == entries[n]
             pieces == Split(href, <<"/">>)
             realm_id == IF href # <<>> THEN Split(pieces[Len(pieces)], <<"?">>)[1] ELSE <<>>
         IN  IF realm_id # <<>> /\ IsDigit(realm_id)
             THEN ParsedIds(Append(before.ids, IntOf(realm_id)))
             ELSE before

RealmIdsOf(a, entries) ==
    IF a = Blizzard THEN ClientRealmIds(entries, Len(entries))
    ELSE AuctionsClientRealmIds(entries, Len(entries))

\* the resource links an index entry may carry; <<>> is an entry without href
Base == <<"h", "/", "w">>
Segments == {<<>>, <<"1">>, <<"1", "2">>, <<"x">>, <<"1", "x">>}
Queries == {<<>>, <<"?", "n">>}
Hrefs == {<<>>} \cup {Base \o Marker \o s \o q : s \in Segments, q \in Queries}
IndexPayloads == SeqsUpTo(Hrefs, MaxEntries)

InitIndex ==
    /\ InitBatch /\ InitClock /\ InitDisk /\ InitUc /\ InitToken /\ InitRerun
    /\ arg \in IndexPayloads
    /\ out = None

\* get_connected_realm_ids of either adapter reads the index payload
GetConnectedRealmIds ==
    /\ out = None
    /\ \E a \in Apis : out' = Some([api |-> a, r |-> RealmIdsOf(a, arg)])
    /\ UNCHANGED arg
    /\ UNCHANGED <<batchVars, ucVars, clockVars, diskVars, tokenVars, rerunVars>>

NextIndex == GetConnectedRealmIds
SpecIndex == InitIndex /\ [][NextIndex]_vars

\* the trailing path segment of a link, before any query string
TrailingSegment(href) ==
    LET pieces == Split(Split(href, <<"?">>)[1], <<"/">>)
    IN  pieces[Len(pieces)]

Numeric(href) == IsDigit(TrailingSegment(href))

\* C12: get_connected_realm_ids never raises because of a bad link: an entry
\* whose trailing path segment (before any query string) is non-numeric or
\* missing is skipped, and the call returns the ids of all other entries, in
\* the order of the index.
BadLinksSkipped ==
    out # None =>
        /\ ~out[1].r.raised
        /\ LET good == SelectSeq(arg, Numeric)
           IN  out[1].r.ids = [i \in DOMAIN good |-> IntOf(TrailingSegment(good[i]))]

\* ------------------------------------------------- the token under a batch
\* The fetches of one batch that hold a slot each call _get; _get first calls
\* _ensure_valid_token, which tests the expiry and, when it fails, awaits
\* _authenticate. Nothing is held between the test and the await.
Requests == DOMAIN reqs
Refreshing == {i \in Requests : reqs[i] = "auth"}

InitRefresh ==
    /\ InitBatch /\ InitClock /\ InitDisk /\ InitUc /\ InitPure /\ InitRerun
    /\ token \in BOOLEAN
    /\ \E n \in 1..MaxReqs : reqs = [i \in 1..n |-> "start"]

\* client.py 132-137 (base.py 85-89): the test of _ensure_valid_token, up to
\* the first await
EnsureValidToken(i) ==
    /\ reqs[i] = "start"
    /\ reqs' = [reqs EXCEPT ![i] = IF token THEN "get" ELSE "auth"]
    /\ UNCHANGED token

\* client.py 123-130 (base.py 67-83): fetch_token answers, the new expiry is stored
Authenticated(i) ==
    /\ reqs[i] = "auth"
    /\ token' = TRUE
    /\ reqs' = [reqs EXCEPT ![i] = "get"]

\* client.py 172-175: the GET answers
Got(i) ==
    /\ reqs[i] = "get"
    /\ reqs' = [reqs EXCEPT ![i] = "done"]
    /\ UNCHANGED token

\* time.time() passes the stored expiry
Expire ==
    /\ token
    /\ token' = FALSE
    /\ UNCHANGED reqs

Enter == (\E i \in Requests : EnsureValidToken(i)) /\ UNCHANGED <<batchVars, ucVars, clockVars, diskVars, pureVars, rerunVars>>
AuthDone == (\E i \in Requests : Authenticated(i)) /\ UNCHANGED <<batchVars, ucVars, clockVars, diskVars, pureVars, rerunVars>>
GetDone == (\E i \in Requests : Got(i)) /\ UNCHANGED <<batchVars, ucVars, clockVars, diskVars, pureVars, rerunVars>>
Expiry == Expire /\ UNCHANGED <<batchVars, ucVars, clockVars, diskVars, pureVars, rerunVars>>

NextToken == Enter \/ AuthDone \/ GetDone \/ Expiry
SpecToken == InitRefresh /\ [][NextToken]_vars

\* C13: when several concurrent fetches of one batch find the token missing
\* or expired, at most one token refresh (_authenticate) is in flight at any
\* time: the other callers wait for the refresh in progress.
SingleRefreshInFlight == Cardinality(Refreshing) <= 1

\* ----------------------------------- the auction workflow, invoked twice
\* What the remote service holds for a realm: the answer to its GET and, for
\* a success, the number of auctions in the payload.
Answers == {[o |-> "ok", m |-> m] : m \in 0..MaxAuctions}
               \cup {[o |-> "notfound", m |-> 0], [o |-> "error", m |-> 0]}

InitTwice ==
    /\ InitBatch /\ InitClock /\ InitDisk /\ InitUc /\ InitPure /\ InitToken
    /\ upstream \in [Range(IndexIds) -> Answers]
    /\ run = 0
    /\ mark = 0

\* a caller invokes fetch_and_store_realm_auctions(realm_ids, max_concurrent)
Invoke ==
    /\ pc = "idle"
    /\ run = 0
    /\ \E rl \in {None} \cup {Some(l) : l \in SeqsUpTo(Range(IndexIds), UcMaxLen)},
          k \in 1..MaxCap, a \in Apis :
          /\ args' = [include_realms |-> FALSE, include_auctions |-> TRUE,
                      include_commodities |-> FALSE, realm_ids |-> rl,
                      max_concurrent |-> k]
          /\ api' = a
    /\ pc' = "auctions"
    /\ run' = 1
    /\ UNCHANGED <<results, queue, paths, writes, exc, ran, pool>>
    /\ UNCHANGED <<upstream, mark>>
    /\ UNCHANGED <<batchVars, pureVars, tokenVars, clockVars, diskVars>>

\* the workflow has returned; the caller invokes it again with the same arguments
InvokeAgain ==
    /\ pc = "commodities"
    /\ run = 1
    /\ run' = 2
    /\ mark' = Len(writes)
    /\ pc' = "auctions"
    /\ UNCHANGED <<args, api, results, queue, paths, writes, exc, ran, pool>>
    /\ UNCHANGED upstream
    /\ UNCHANGED <<batchVars, pureVars, tokenVars, clockVars, diskVars>>

\* a per-realm GET is answered with what the remote service holds
SettleUpstream ==
    /\ \E i \in DOMAIN tasks : Complete(i, upstream[ids[i]].o, upstream[ids[i]].m)
    /\ UNCHANGED ucVars
    /\ UNCHANGED sideVars

NextTwice ==
    \/ Invoke \/ EnterAuctions \/ AuctionIdsDone \/ SettleUpstream
    \/ AuctionsFetched \/ StoreRealmAuctions \/ InvokeAgain \/ Tick
SpecTwice == InitTwice /\ [][NextTwice]_vars

\* the columns of a table that do not derive from the fetch timestamp
Undated(rows) ==
    [i \in DOMAIN rows |-> [auction_id |-> rows[i].auction_id,
                            quantity |-> rows[i].quantity,
                            connected_realm_id |-> rows[i].connected_realm_id]]

\* the files of the calls from..to of storage.write: realm id and rows
FilesOf(from, to) ==
    {[id |-> writes[i].path.id, rows |-> Undated(writes[i].rows)] : i \in from..to}

BothRunsReturned == run = 2 /\ pc = "commodities"

\* C14: two runs of fetch_and_store_realm_auctions over identical upstream
\* data write files for the same set of realm ids with identical rows apart
\* from the timestamp-derived columns, one file per realm in each run and
\* under the same realm directory: the second run depends on nothing the
\* first run left behind.
RerunWritesSame ==
    BothRunsReturned =>
        /\ FilesOf(1, mark) = FilesOf(mark + 1, Len(writes))
        /\ Len(writes) = 2 * mark
        /\ \A i \in 1..mark : /\ writes[i].path.dir = writes[mark + i].path.dir
                              /\ writes[i].path.id = writes[mark + i].path.id

\* C14 witness: both runs returned, each wrote the file of realm 11 and
\* neither has a file for realm 12, whose fetch fails
RerunWithFailure ==
    /\ BothRunsReturned
    /\ mark = 1 /\ Len(writes) = 2
    /\ writes[1].path.id = 11 /\ writes[2].path.id = 11
    /\ 12 \in Range(ids)
    /\ upstream[12].o = "error"

\* ------------------------------------------- auctions_to_dataframe alone
AuctionIds == {7, 8, 9}
RealmIdValues == {None, Some(0), Some(11)}

Quantities == {1, 32767, 32768, 40000}

\* AuctionData as the domain model declares it: connected_realm_id is
\* Optional[int], auctions a list of Auction (here: id and quantity),
\* fetch_timestamp a datetime
AuctionDatas ==
    {[connected_realm_id |-> c, auctions |-> a, fetch_timestamp |-> ts] :
        c \in RealmIdValues,
        a \in SeqsUpTo([id : AuctionIds, quantity : Quantities], MaxRows),
        ts \in Readings}

InitFrame ==
    /\ InitBatch /\ InitClock /\ InitDisk /\ InitUc /\ InitToken /\ InitRerun
    /\ arg \in AuctionDatas
    /\ out = None

ToDataframe ==
    /\ out = None
    /\ out' = Some(AuctionsToDataframe(arg))
    /\ UNCHANGED arg
    /\ UNCHANGED <<batchVars, ucVars, clockVars, diskVars, tokenVars, rerunVars>>

NextFrame == ToDataframe
SpecFrame == InitFrame /\ [][NextFrame]_vars

\* the table has one row per auction of the input, in source order
RowPerAuction(df, ad) ==
    /\ ~df.raised
    /\ Len(df.rows) = Len(ad.auctions)
    /\ \A i \in DOMAIN ad.auctions : df.rows[i].auction_id = ad.auctions[i].id

IntRange(w) == (0 - 2^(w - 1))..(2^(w - 1) - 1)

\* C21: the Dataset Transformer never stores a silently altered number: in
\* every table auctions_to_dataframe returns, row i carries the auction id,
\* the quantity and the realm id of auctions[i], and an input holding a
\* quantity outside the 16-bit signed range makes the call raise instead of
\* yielding a table.
StoredNumbersUnaltered ==
    out # None =>
        /\ ~out[1].raised =>
              \A i \in DOMAIN out[1].rows :
                  /\ out[1].rows[i].auction_id = arg.auctions[i].id
                  /\ out[1].rows[i].quantity = arg.auctions[i].quantity
                  /\ out[1].rows[i].connected_realm_id = arg.connected_realm_id
        /\ (\E i \in DOMAIN arg.auctions : arg.auctions[i].quantity \notin IntRange(16)) =>
              out[1].raised

\* the ids of the batch whose GET was answered with the given outcome
IdsAnswered(o) == {ids[i] : i \in {j \in DOMAIN tasks : tasks[j].o = o}}

\* C16: BlizzardAPIClient keeps "not found" distinct from other remote
\* errors: in get_all_connected_realms, get_connected_realm yields None
\* exactly for a 404 and raises for every other error status; a 404 only
\* keeps its id out of the mapping and is never fatal to the batch.
NotFoundIsNotAnError ==
    method = ClientRealms =>
        /\ \A i \in DOMAIN tasks :
              /\ tasks[i].st = "none" <=> tasks[i].o = "notfound"
              /\ tasks[i].st = "raised" <=> tasks[i].o = "error"
        /\ call = "raised" => (cap < 0 \/ IdsAnswered("error") # {})
        /\ call = "returned" => Keys(result) = IdsAnswered("ok")

\* C16 witness: a realm batch returned although one id was answered 404;
\* the mapping holds the other id only
NotFoundDropped ==
    /\ method = ClientRealms
    /\ call = "returned"
    /\ \E i, j \in DOMAIN tasks :
          /\ tasks[i].o = "notfound" /\ tasks[j].o = "ok"
          /\ ids[i] \notin Keys(result) /\ ids[j] \in Keys(result)

\* ------------------------------------------------ normalizing raw payloads
\* A raw payload is a dict: the function from the fields it carries to their
\* values. A nested dict is flattened to the one value the parser reads from
\* it (item -> its id, status -> its type, crafted_quantity -> its minimum).
Get(d, f, default) == IF f \in DOMAIN d THEN d[f] ELSE default

Parsed(rec) == [raised |-> FALSE, rec |-> rec]
KeyErrorRaised == [raised |-> TRUE]

AuctionFields == {"id", "item", "quantity", "time_left", "unit_price"}
RealmFields == {"id", "status", "population", "has_queue"}
ItemFields == {"id", "name", "quality", "level"}
RecipeFields == {"id", "name", "crafted_item", "crafted_quantity"}

\* client.py 261-286, one auction_dict of the loop
ParseAuctionData(d) ==
    Parsed([id |-> Get(d, "id", 0),
            item |-> Get(d, "item", 0),
            quantity |-> Get(d, "quantity", 1),
            time_left |-> Get(d, "time_left", "UNKNOWN"),
            unit_price |-> Get(d, "unit_price", None)])

\* models.py 57-82, one auction_data of the loop
FromApiResponse(d) ==
    Parsed([id |-> Get(d, "id", None),
            item |-> Get(d, "item", None),
            quantity |-> Get(d, "quantity", 1),
            time_left |-> Get(d, "time_left", None),
            unit_price |-> Get(d, "unit_price", None)])

\* client.py 220-230: id=data["id"] is the one subscript among the lookups
ParseConnectedRealm(d) ==
    IF "id" \notin DOMAIN d THEN KeyErrorRaised
    ELSE Parsed([id |-> d["id"],
                 status |-> Get(d, "status", "UP"),
                 population |-> Get(d, "population", "MEDIUM"),
                 has_queue |-> Get(d, "has_queue", FALSE)])

\* client.py 329-346
ParseItem(d) ==
    Parsed([id |-> Get(d, "id", 0),
            name |-> Get(d, "name", ""),
            quality |-> Get(d, "quality", "COMMON"),
            level |-> Get(d, "level", 0)])

\* client.py 397-420
ParseRecipe(d) ==
    Parsed([id |-> Get(d, "id", 0),
            name |-> Get(d, "name", ""),
            crafted_item |-> Get(d, "crafted_item", None),
            crafted_quantity |-> Get(d, "crafted_quantity", 1)])

Kinds == {"auction", "auction_model", "realm", "item", "recipe"}

FieldsOf(kind) ==
    IF kind \in {"auction", "auction_model"} THEN AuctionFields
    ELSE IF kind = "realm" THEN RealmFields
    ELSE IF kind = "item" THEN ItemFields
    ELSE RecipeFields

Normalize(kind, d) ==
    IF kind = "auction" THEN ParseAuctionData(d)
    ELSE IF kind = "auction_model" THEN FromApiResponse(d)
    ELSE IF kind = "realm" THEN ParseConnectedRealm(d)
    ELSE IF kind = "item" THEN ParseItem(d)
    ELSE ParseRecipe(d)

\* a value the remote service sends for a field
Sample(f) ==
    IF f \in {"id", "item", "quantity", "level", "crafted_quantity"} THEN 5
    ELSE IF f \in {"unit_price", "crafted_item"} THEN Some(9)
    ELSE IF f = "has_queue" THEN TRUE
    ELSE "sent"

Payloads ==
    UNION {{[kind |-> k, data |-> [f \in present |-> Sample(f)]] :
               present \in SUBSET FieldsOf(k)} : k \in Kinds}

InitParse ==
    /\ InitBatch /\ InitClock /\ InitDisk /\ InitUc /\ InitToken /\ InitRerun
    /\ arg \in Payloads
    /\ out = None

ParsePayload ==
    /\ out = None
    /\ out' = Some(Normalize(arg.kind, arg.data))
    /\ UNCHANGED arg
    /\ UNCHANGED <<batchVars, ucVars, clockVars, diskVars, tokenVars, rerunVars>>

NextParse == ParsePayload
SpecParse == InitParse /\ [][NextParse]_vars

\* C17: normalizing a raw payload never raises because a field is missing:
\* an auction, realm, item or recipe payload that lacks its id (or any other
\* field) produces a record, and the record carries every field the payload
\* sent.
MissingFieldNeverRaises ==
    out # None =>
        /\ ~out[1].raised
        /\ \A f \in DOMAIN arg.data : out[1].rec[f] = arg.data[f]

\* the place of a workflow in execute
Rank(w) == IF w = "realms" THEN 1 ELSE IF w = "auctions" THEN 2 ELSE 3

\* no per-id fetch of a batch is in flight or waiting for a slot
NoFetchPending == InFlight = {} /\ waiters = <<>>

\* C18: workflow stages are strictly sequenced. While get_connected_realm_ids
\* is pending no per-realm fetch of that workflow has been dispatched; no
\* storage write of a workflow happens before its batch fetch has completed;
\* the enabled workflows of execute start in the order realms, auctions,
\* commodities, and while a remote call of a later workflow is pending the
\* earlier workflow has finished and none of its fetches is still pending.
StagesSequenced ==
    /\ pc = "realm_ids" => fetches = <<>> /\ tasks = <<>>
    /\ pc = "auction_ids" => NoFetchPending /\ method \notin AuctionMethods
    /\ pc = "commodity_fetch" => NoFetchPending
    /\ pc \in {"realm_ids", "realm_batch"} => writes = <<>>
    /\ pc \in {"auction_ids", "auction_batch"} => WritesOf("auctions") = {}
    /\ pc = "auction_store" => NoFetchPending /\ call = "returned"
    /\ (pc = "realm_batch" /\ InFlight # {}) => method = ClientRealms
    /\ (pc = "auction_batch" /\ InFlight # {}) => method \in AuctionMethods
    /\ \A i, j \in DOMAIN ran : i < j => Rank(ran[i]) < Rank(ran[j])
    /\ \A i, j \in DOMAIN writes : i < j => Rank(writes[i].wf) <= Rank(writes[j].wf)
    /\ pc \in {"auction_ids", "auction_batch", "auction_store"} =>
          (args.include_realms => results.realms # None)
    /\ pc = "commodity_fetch" =>
          /\ args.include_realms => results.realms # None
          /\ args.include_auctions => results.auctions # None

\* C18 witness: all three workflows enabled, realm_ids omitted; the commodity
\* fetch is pending after the realm and auction files were written
AllStagesPassed ==
    /\ pc = "commodity_fetch"
    /\ ran = <<"realms", "auctions", "commodities">>
    /\ args.realm_ids = None
    /\ WritesOf("realms") # {}
    /\ Cardinality(WritesOf("auctions")) = Len(IndexIds)

\* C19: within one batch fetch the per-id remote fetches are dispatched in
\* the insertion order of ids, the ids that waited for a slot included: at
\* every moment the fetches started so far are those of a prefix of ids, in
\* that order. Completion order is free.
DispatchInInputOrder ==
    /\ Len(fetches) <= Len(ids)
    /\ fetches = SubSeq(ids, 1, Len(fetches))

\* C19 witness: every id of the longest list was dispatched, the later ones
\* after waiting for one of the two slots, and the fetches complete out of
\* order: the second has ended while the first is still in flight
OutOfOrderCompletion ==
    /\ Len(ids) = MaxLen
    /\ Len(fetches) = MaxLen
    /\ cap = 2
    /\ tasks[1].st = "inflight"
    /\ Settled(tasks[2].st)
    /\ tasks[MaxLen].st = "inflight"

\* -------------------------------------- a batch fetch whose calls all answer
\* Which realm ids are asked for and how many auctions a payload holds do not
\* enter the scheduling, so the ids are distinct here and the payloads empty.
DistinctIds(n) == [i \in 1..n |-> 10 + i]

CallDistinct ==
    /\ call = "idle"
    /\ \E m \in Methods, n \in 0..MaxLen, k \in Caps : BatchCall(m, DistinctIds(n), k)
    /\ UNCHANGED ucVars
    /\ UNCHANGED sideVars

Answer ==
    /\ \E i \in DOMAIN tasks, o \in Outcomes : Complete(i, o, 0)
    /\ UNCHANGED ucVars
    /\ UNCHANGED sideVars

NextLive == CallDistinct \/ Answer

\* every remote call eventually completes, with success or with an error
SpecLive == Init /\ [][NextLive]_vars /\ WF_vars(Answer)

Started == call # "idle" /\ cap >= 1
AllFetched == Len(fetches) = Len(ids) /\ waiters = <<>> /\ InFlight = {}

\* C20: with max_concurrent >= 1 and every remote call eventually
\* completing, every id of the input is eventually fetched (an id that waits
\* for a slot gets one) and the batch fetch call eventually completes, by
\* returning or by raising.
BatchEventuallyCompletes == Started ~> (Completed /\ AllFetched)

\* C20 witness: a call with one slot and the longest id list has returned
\* after every id, the waiting ones included, was fetched
WaitersServed ==
    /\ call = "returned"
    /\ cap = 1
    /\ Len(ids) = MaxLen
    /\ AllFetched

\* C22: every file the per-realm auction workflow writes goes to the
\* realm_{id} directory of the realm it was fetched for, whatever ids the
\* caller listed (0 included), and only the commodity workflow writes under
\* the commodities directory.
PerRealmPathsApart ==
    /\ \A i \in WritesOf("auctions") :
          writes[i].ok =>
              writes[i].path.dir = "realm" /\ writes[i].path.id = RealmOfWrite(i)
    /\ \A i \in DOMAIN writes :
          (writes[i].ok /\ writes[i].path.dir = "commodities") =>
              writes[i].wf = "commodities"

\* the tables the auction and the commodity workflow handed to storage.write
DatedWrites == WritesOf("auctions") \cup WritesOf("commodities")

\* C23: every table the auction and commodity workflows write derives from
\* one fetch_timestamp: all its rows carry the same fetch_timestamp, the same
\* date and the same two-digit hour, both formatted from that timestamp, and
\* they equal the date and hour segments of the path the table is written to.
TableOfOneFetch ==
    \A i \in DatedWrites :
        \A j \in DOMAIN writes[i].rows :
            LET row == writes[i].rows[j]
            IN  /\ row.fetch_timestamp = writes[i].rows[1].fetch_timestamp
                /\ row.date = DateStr(row.fetch_timestamp)
                /\ row.hour = HourStr(row.fetch_timestamp)
                /\ Len(row.hour) = 2
                /\ row.date = writes[i].path.date
                /\ row.hour = writes[i].path.hour

\* C23 witness: one run wrote two realm tables of more than one row each,
\* fetched on either side of midnight, and a commodity table
TablesAcrossMidnight ==
    /\ pc = "done"
    /\ \E i, j \in WritesOf("auctions") :
          /\ Len(writes[i].rows) > 1 /\ Len(writes[j].rows) > 1
          /\ writes[i].path.date < writes[j].path.date
          /\ writes[i].path.hour = <<"2", "3">>
          /\ writes[j].path.hour = <<"0", "0">>
    /\ WritesOf("commodities") # {}

\* the auction workflow is the last one execute started, and it raised
AuctionsRaised == pc = "raised" /\ ran # <<>> /\ ran[Len(ran)] = "auctions"

\* the auction workflow was entered and is over
AuctionsOver ==
    /\ "auctions" \in Range(ran)
    /\ pc \notin {"auction_ids", "auction_batch", "auction_store"}

\* the step in which fetch_and_store_realm_auctions resolves its realm ids:
\* the id index is requested if and only if realm_ids is None, and an
\* explicit list is passed to the batch fetch as it is
IdsResolved ==
    (pc = "auctions" /\ args.include_auctions) =>
        IF args.realm_ids = None
        THEN pc' = "auction_ids" /\ call' = call
        ELSE /\ pc' = "auction_batch"
             /\ method' = AuctionBatchOf(api)
             /\ ids' = args.realm_ids[1]

EmptyListGiven == args.realm_ids = Some(<<>>) /\ "auctions" \in Range(ran)

\* C24 as stated: the id index is fetched if and only if realm_ids is None;
\* an explicit list, the empty one included, is passed to the batch fetch
\* unchanged with no id-index call; with the empty list nothing is fetched
\* or written and the workflow returns the empty mapping.
IndexOnlyIfOmitted ==
    [][/\ IdsResolved
       /\ pc' = "auction_ids" => args.realm_ids = None
       /\ EmptyListGiven' =>
             /\ fetches' = <<>>
             /\ WritesOf("auctions")' = {}
             /\ ~AuctionsRaised'
             /\ AuctionsOver' => results'.auctions = Some(EmptyMap)]_vars

\* C24 amended: as above, but the empty list yields the empty mapping only
\* when max_concurrent is not negative; with a negative max_concurrent the
\* batch fetch raises ValueError, for the empty list as for any other.
IndexOnlyIfOmittedValidCap ==
    [][/\ IdsResolved
       /\ pc' = "auction_ids" => args.realm_ids = None
       /\ EmptyListGiven' =>
             /\ fetches' = <<>>
             /\ WritesOf("auctions")' = {}
             /\ args'.max_concurrent >= 0 =>
                   /\ ~AuctionsRaised'
                   /\ AuctionsOver' => results'.auctions = Some(EmptyMap)
             /\ args'.max_concurrent < 0 =>
                   /\ call' = "raised" /\ err' = "ValueError"
                   /\ results'.auctions = None]_vars

\* C24 witness: execute went through the realm metadata workflow, which
\* fetched the id index, and then through the auction workflow with the empty
\* list, which fetched nothing and returned the empty mapping
EmptyListReturned ==
    /\ pc = "done"
    /\ args.include_realms /\ results.realms # None
    /\ args.realm_ids = Some(<<>>)
    /\ args.max_concurrent >= 0
    /\ results.auctions = Some(EmptyMap)
    /\ fetches = <<>>

\* ------------------------------------------- the modifiers of an auction item
MaxMods == 3
ModifierTypes == {9, 28}
ModifierValues == {1, 2}

\* the "modifiers" list of an item payload: dicts with a type and a value
ModifierLists == SeqsUpTo([type : ModifierTypes, value : ModifierValues], MaxMods)

\* item payloads: without a "modifiers" key, or with a list
ItemDatas == {[id |-> 1]} \cup {[id |-> 1, modifiers |-> l] : l \in ModifierLists}

\* client.py 269: a tuple of (type, value) pairs, one per element
ClientModifiers(item_data) ==
    LET mods == Get(item_data, "modifiers", <<>>)
    IN  [i \in DOMAIN mods |-> <<Get(mods[i], "type", 0), Get(mods[i], "value", 0)>>]

\* models.py 67: a dict comprehension keyed by the type, None without the key
RECURSIVE DictOfModifiers(_, _)
DictOfModifiers(mods, n) ==
    IF n = 0 THEN EmptyMap
    ELSE DictSet(DictOfModifiers(mods, n - 1),
                 Get(mods[n], "type", None), Get(mods[n], "value", None))

ModelModifiers(item_data) ==
    IF "modifiers" \in DOMAIN item_data
    THEN Some(DictOfModifiers(item_data.modifiers, Len(item_data.modifiers)))
    ELSE None

ClientParser == "BlizzardAPIClient._parse_auction_data"
ModelParser == "AuctionData.from_api_response"

ModifiersOf(parser, item_data) ==
    IF parser = ClientParser THEN ClientModifiers(item_data) ELSE ModelModifiers(item_data)

\* what a parser's result holds, as (type, value) pairs in its own order
PairsOf(parser, parsed) ==
    IF parser = ClientParser THEN parsed
    ELSE IF parsed = None THEN <<>>
    ELSE [i \in DOMAIN parsed[1] |-> <<parsed[1][i].k, parsed[1][i].v>>]

InitModifiers ==
    /\ InitBatch /\ InitClock /\ InitDisk /\ InitUc /\ InitToken /\ InitRerun
    /\ arg \in [parser : {ClientParser, ModelParser}, item : ItemDatas]
    /\ out = None

ParseModifiers ==
    /\ out = None
    /\ out' = Some(ModifiersOf(arg.parser, arg.item))
    /\ UNCHANGED arg
    /\ UNCHANGED <<batchVars, ucVars, clockVars, diskVars, tokenVars, rerunVars>>

NextModifiers == ParseModifiers
SpecModifiers == InitModifiers /\ [][NextModifiers]_vars

\* C25: both parsers turn an item's modifier list into (type, value) pairs
\* that keep the length and the order of the source: a payload with k
\* modifiers yields k pairs, pair i being the type and value of modifier i,
\* also when two modifiers share a type.
ModifiersKeepOrderAndLength ==
    out # None =>
        LET mods == Get(arg.item, "modifiers", <<>>)
            pairs == PairsOf(arg.parser, out[1])
        IN  /\ Len(pairs) = Len(mods)
            /\ \A i \in DOMAIN mods : pairs[i] = <<mods[i].type, mods[i].value>>

\* the remote calls of execute that are in flight: the per-id fetches of the
\* current batch and the single request of an id index or commodity fetch
RemoteCallsInFlight ==
    Cardinality(InFlight)
        + (IF pc \in {"realm_ids", "auction_ids", "commodity_fetch"} THEN 1 ELSE 0)

\* C26: during execute(max_concurrent=k), k >= 1, with any flags, never more
\* than k remote calls are in flight, in any workflow, the fan-out of the
\* realm metadata workflow over the realm details included.
ExecuteWithinCap ==
    (pc # "idle" /\ args.max_concurrent >= 1) =>
        RemoteCallsInFlight <= args.max_concurrent

\* ------------------------------ the two implementations of the batch fetch
\* Both implementations are called with the same realm ids and the same cap
\* against a remote service whose answer for each id is fixed (upstream).
InitBoth ==
    /\ InitBatch /\ InitClock /\ InitDisk /\ InitUc /\ InitPure /\ InitToken
    /\ upstream \in [Range(IndexIds) -> Answers]
    /\ run = 0
    /\ mark = 0

\* BlizzardAPIClient.get_multiple_realm_auctions(realm_ids, max_concurrent)
CallClient ==
    /\ run = 0
    /\ call = "idle"
    /\ \E rids \in SeqsUpTo(Range(IndexIds), MaxLen), k \in 1..MaxCap :
          BatchCall(ClientAuctions, rids, k)
    /\ run' = 1
    /\ UNCHANGED <<upstream, mark>>
    /\ UNCHANGED <<ucVars, pureVars, tokenVars, clockVars, diskVars>>

\* the first call is over: its outcome is kept, and
\* AuctionsClient.get_multiple_realm_auctions is called with the same arguments
CallAuctionsClient ==
    /\ run = 1
    /\ Completed
    /\ out' = Some([call |-> call, keys |-> Keys(result)])
    /\ BatchCall(AcAuctions, ids, cap)
    /\ run' = 2
    /\ UNCHANGED <<arg, upstream, mark>>
    /\ UNCHANGED <<ucVars, tokenVars, clockVars, diskVars>>

NextBoth == CallClient \/ SettleUpstream \/ CallAuctionsClient
SpecBoth == InitBoth /\ [][NextBoth]_vars

BothCompleted == run = 2 /\ Completed

\* C27: for the same realm id list, the same cap and the same per-id
\* outcomes, BlizzardAPIClient.get_multiple_realm_auctions and
\* AuctionsClient.get_multiple_realm_auctions both return, with mappings of
\* the same key set.
BatchFetchesEquivalent ==
    BothCompleted =>
        /\ out[1].call = "returned"
        /\ call = "returned"
        /\ out[1].keys = Keys(result)

\* the locations of the files the auction workflow has written
AuctionFilesWritten ==
    {Location(writes[i].path) : i \in {j \in WritesOf("auctions") : writes[j].ok}}

\* the locations the caller of the auction workflow holds: those of the
\* mapping it received, none if the workflow raised
AuctionFilesReported ==
    IF results.auctions = None THEN {}
    ELSE {results.auctions[1][i].v : i \in DOMAIN results.auctions[1]}

\* C28: once fetch_and_store_realm_auctions is over, by returning or by
\* raising, the files it wrote are exactly the locations of the mapping its
\* caller received: no file is written without being reported.
WrittenFilesReported ==
    (AuctionsOver \/ AuctionsRaised) => AuctionFilesWritten = AuctionFilesReported

\* the slots of the batch's semaphore that are held
SlotsHeld == cap - sem

\* C29: in every batch fetch the number of held slots stays between 0 and
\* max_concurrent, each fetch in flight holding exactly one, and it is 0 when
\* the batch call has completed, by returning or by raising.
SlotsReleasedAtCompletion ==
    (call # "idle" /\ cap >= 0) =>
        /\ SlotsHeld >= 0 /\ SlotsHeld <= cap
        /\ SlotsHeld = Cardinality(InFlight)
        /\ Completed => SlotsHeld = 0

\* ------------------------------------------------------ LocalParquetWriter
\* A relative path is the sequence of its segments; a path of MaxDepth
\* segments lies in a directory of MaxDepth - 1 segments.
MaxDepth == 2
Names == {"a", "x"}
RelPaths == UNION {[1..n -> Names] : n \in 1..MaxDepth}

IsPrefix(p, q) == Len(p) <= Len(q) /\ SubSeq(q, 1, Len(p)) = p
Parents(p) == {SubSeq(p, 1, n) : n \in 1..(Len(p) - 1)}
Under(p, S) == {q \in S : IsPrefix(p, q)}

\* Path.exists(): a file or a directory is there
PathExists(d, p) == p \in d.files \cup d.dirs

\* write, line 112-135. mkdir(parents=True, exist_ok=True) fails if a parent
\* is a file; otherwise the parents are there from then on. write_table
\* fails on a path that is a directory, and any other failure (conversion of
\* the frame, the file system) raises StorageError as well.
Write(p) ==
    /\ IF Parents(p) \cap disk.files # {}
       THEN /\ last' = Some([op |-> "write", path |-> p, ret |-> "StorageError"])
            /\ UNCHANGED <<disk, kept>>
       ELSE LET made == [disk EXCEPT !.dirs = @ \cup Parents(p)]
            IN  \E ok \in BOOLEAN :
                   IF ok /\ p \notin disk.dirs
                   THEN /\ disk' = [made EXCEPT !.files = @ \cup {p}]
                        /\ kept' = kept \cup {p}
                        /\ last' = Some([op |-> "write", path |-> p, ret |-> "ok"])
                   ELSE /\ disk' = made
                        /\ kept' = kept
                        /\ last' = Some([op |-> "write", path |-> p, ret |-> "StorageError"])
    /\ UNCHANGED <<batchVars, ucVars, pureVars, tokenVars, rerunVars, clockVars>>

\* exists, line 190-193
Exists(p) ==
    /\ last' = Some([op |-> "exists", path |-> p, ret |-> PathExists(disk, p)])
    /\ UNCHANGED <<disk, kept>>
    /\ UNCHANGED <<batchVars, ucVars, pureVars, tokenVars, rerunVars, clockVars>>

\* delete, line 217-239: False for a path that is not there, otherwise
\* rmtree for a directory and unlink for a file
Delete(p) ==
    /\ IF ~PathExists(disk, p)
       THEN /\ last' = Some([op |-> "delete", path |-> p, ret |-> FALSE, existed |-> FALSE])
            /\ UNCHANGED <<disk, kept>>
       ELSE /\ disk' = IF p \in disk.dirs
                       THEN [files |-> disk.files \ Under(p, disk.files),
                             dirs |-> disk.dirs \ Under(p, disk.dirs)]
                       ELSE [disk EXCEPT !.files = @ \ {p}]
            /\ kept' = kept \ Under(p, kept)
            /\ last' = Some([op |-> "delete", path |-> p, ret |-> TRUE, existed |-> TRUE])
    /\ UNCHANGED <<batchVars, ucVars, pureVars, tokenVars, rerunVars, clockVars>>

WriteCalled == \E p \in RelPaths : Write(p)
ExistsCalled == \E p \in RelPaths : Exists(p)
DeleteCalled == \E p \in RelPaths : Delete(p)

NextStore == WriteCalled \/ ExistsCalled \/ DeleteCalled
SpecStore == Init /\ [][NextStore]_vars

\* p was written and not deleted since, or is a directory holding such a file
HoldsWritten(p) == Under(p, kept) # {}

\* C30: over any sequence of write, delete and exists calls on relative
\* paths, exists(p) is true exactly when p was successfully written, or is a
\* directory holding a written file, and not deleted since; delete(p) returns
\* True exactly when p existed immediately before the call; after delete(p)
\* has returned, p does not exist and nothing is left under it.
ExistsTracksWrites ==
    /\ \A p \in RelPaths : PathExists(disk, p) <=> HoldsWritten(p)
    /\ last # None =>
          /\ last[1].op = "exists" => (last[1].ret <=> HoldsWritten(last[1].path))
          /\ last[1].op = "delete" =>
                /\ last[1].ret = last[1].existed
                /\ ~PathExists(disk, last[1].path)
                /\ Under(last[1].path, disk.files \cup disk.dirs) = {}

====
